---- MODULE Spec2Model ----
(***************************************************************************)
(* A model of the settlement-report splitter: split.py's process_pdf and   *)
(* the helpers it calls (is_continuation_or_summary_page,                  *)
(* convert_pdf_to_image, get_gemini_response, sanitize_filename), and the  *)
(* button handlers of split.py and main.py around it.                      *)
(*                                                                         *)
(* Python strings are modelled as sequences of one-character strings, so   *)
(* that formatting (zfill, strftime, the f-string of the filename) and     *)
(* parsing are computed and not assumed.  The text of an AI response is a  *)
(* sequence of lexical tokens.                                             *)
(***************************************************************************)
EXTENDS Integers, Sequences, FiniteSets, TLC

(***************************************************************************)
(* Bounds of the model.                                                    *)
(***************************************************************************)
\* Largest number of pages of an uploaded document.
MaxPages == 3
\* Largest number of times the calendar date changes during one run.
MaxTicks == 1
\* Longest response text (in tokens) explored by the parser specification.
MaxTextLen == 4

(***************************************************************************)
(* Python values as they come out of json.loads: a string, a number or     *)
(* null.  Every value is a record of the same shape.                       *)
(***************************************************************************)
Str(s) == [t |-> "str", s |-> s, n |-> 0]
Num(n) == [t |-> "num", s |-> <<>>, n |-> n]
Null == [t |-> "null", s |-> <<>>, n |-> 0]

\* Python truthiness: None, the empty string and 0 are falsy.
Truthy(v) ==
    CASE v.t = "str" -> v.s # <<>>
      [] v.t = "num" -> v.n # 0
      [] OTHER -> FALSE

DIGITS == <<"0", "1", "2", "3", "4", "5", "6", "7", "8", "9">>

RECURSIVE Digits(_)
\* str(n) for an integer n >= 0.
Digits(n) ==
    IF n < 10 THEN <<DIGITS[n + 1]>>
    ELSE Digits(n \div 10) \o <<DIGITS[(n % 10) + 1]>>

\* str(v) as the f-string and str() format a value.
PyStr(v) ==
    CASE v.t = "str" -> v.s
      [] v.t = "num" -> Digits(v.n)
      [] OTHER -> <<"N", "o", "n", "e">>

RECURSIVE zfill_truncating(_, _)
\* zfill as a fixed-width field: the digits beyond width are cut off.
zfill_truncating(s, width) ==
    IF Len(s) > width THEN SubSeq(s, Len(s) - width + 1, Len(s))
    ELSE IF Len(s) = width THEN s
    ELSE zfill_truncating(<<"0">> \o s, width)

RECURSIVE zfill(_, _)
\* str.zfill(width): pad with zeros on the left, never truncate.
zfill(s, width) == IF Len(s) >= width THEN s ELSE zfill(<<"0">> \o s, width)

(***************************************************************************)
(* Response text and its parsing (get_gemini_response, lines 86-103).      *)
(* A token is a brace, a comma, white space, a markdown fence, the word    *)
(* json, other text (x), or a whole object member, a key with its value.   *)
(***************************************************************************)
Tok(c) == [tok |-> c, key |-> "", val |-> Null]
Member(k, v) == [tok |-> "member", key |-> k, val |-> v]

LBRACE == Tok("{")
RBRACE == Tok("}")
COMMA == Tok(",")
WS == Tok(" ")
FENCE == Tok("fence")
JSONWORD == Tok("json")
JUNK == Tok("x")

\* str.find: 0-based index of the first occurrence, -1 if there is none.
find(s, c) ==
    IF \E i \in 1..Len(s) : s[i] = c
    THEN (CHOOSE i \in 1..Len(s) : s[i] = c /\ \A j \in 1..(i - 1) : s[j] # c) - 1
    ELSE -1

\* str.rfind: 0-based index of the last occurrence, -1 if there is none.
rfind(s, c) ==
    IF \E i \in 1..Len(s) : s[i] = c
    THEN (CHOOSE i \in 1..Len(s) : s[i] = c /\ \A j \in (i + 1)..Len(s) : s[j] # c) - 1
    ELSE -1

\* s[a:b] with Python's treatment of negative and out-of-range indices.
Slice(s, a, b) ==
    LET norm(i) == IF i < 0 THEN (IF i + Len(s) < 0 THEN 0 ELSE i + Len(s))
                   ELSE (IF i > Len(s) THEN Len(s) ELSE i)
        lo == norm(a)
        hi == norm(b)
    IN IF hi <= lo THEN <<>> ELSE SubSeq(s, lo + 1, hi)

\* First position >= j (1-based) that holds no white space; Len(s)+1 if none.
SkipWs(s, j) ==
    IF \E k \in j..Len(s) : s[k] # WS
    THEN CHOOSE k \in j..Len(s) : s[k] # WS /\ \A m \in j..(k - 1) : s[m] = WS
    ELSE Len(s) + 1

\* Whether the search of line 88 (a fence, an optional json, white space, an
\* object from a brace to a brace taken lazily, white space, a fence; DOTALL)
\* can match with the opening fence at i and the object from a to b (1-based).
FenceMatch(s, i, a, b) ==
    /\ s[i] = FENCE
    /\ a = SkipWs(s, IF i + 1 <= Len(s) /\ s[i + 1] = JSONWORD THEN i + 2 ELSE i + 1)
    /\ a <= Len(s) /\ s[a] = LBRACE
    /\ b > a /\ b <= Len(s) /\ s[b] = RBRACE
    /\ SkipWs(s, b + 1) <= Len(s) /\ s[SkipWs(s, b + 1)] = FENCE

\* The match object of the search: leftmost opening fence, shortest object.
FenceSearch(s) ==
    LET P == 1..Len(s)
        starts == {i \in P : \E a \in P, b \in P : FenceMatch(s, i, a, b)}
    IN IF starts = {} THEN [found |-> FALSE, group2 |-> <<>>]
       ELSE LET i == CHOOSE x \in starts : \A y \in starts : x <= y
                a == CHOOSE x \in P : \E b \in P : FenceMatch(s, i, x, b)
                ends == {b \in P : FenceMatch(s, i, a, b)}
                b == CHOOSE x \in ends : \A y \in ends : x <= y
            IN [found |-> TRUE, group2 |-> SubSeq(s, a, b)]

\* str.strip() on a token sequence.
strip(s) ==
    LET nonws == {k \in 1..Len(s) : s[k] # WS}
    IN IF nonws = {} THEN <<>>
       ELSE SubSeq(s, CHOOSE k \in nonws : \A m \in nonws : k <= m,
                      CHOOSE k \in nonws : \A m \in nonws : k >= m)

RECURSIVE DropWs(_)
DropWs(s) ==
    IF s = <<>> THEN <<>>
    ELSE IF Head(s) = WS THEN DropWs(Tail(s)) ELSE <<Head(s)>> \o DropWs(Tail(s))

\* json.loads on a token sequence: [ok |-> FALSE] stands for JSONDecodeError.
\* An object is a brace, members separated by commas, a brace; white space is free
\* between tokens; anything before or after the object is an error.
json_loads(s) ==
    LET t == DropWs(s)
        n == Len(t)
        inner == SubSeq(t, 2, n - 1)
        wellformed ==
            /\ n >= 2 /\ t[1] = LBRACE /\ t[n] = RBRACE
            /\ \/ inner = <<>>
               \/ /\ Len(inner) % 2 = 1
                  /\ \A k \in 1..Len(inner) :
                        IF k % 2 = 1 THEN inner[k].tok = "member" ELSE inner[k] = COMMA
    IN IF wellformed /\ inner = <<>> THEN [ok |-> TRUE, items |-> <<>>]
       ELSE IF wellformed
       THEN [ok |-> TRUE,
             items |-> [k \in 1..((Len(inner) + 1) \div 2) |->
                           [key |-> inner[2 * k - 1].key, val |-> inner[2 * k - 1].val]]]
       ELSE [ok |-> FALSE, items |-> <<>>]

\* What get_gemini_response hands back: None, or a dict.
PyNone == [kind |-> "None", items |-> <<>>]
Dict(items) == [kind |-> "dict", items |-> items]

\* dict.get(key): the value of the last member with that key, None if absent.
Get(d, key) ==
    LET hits == {k \in 1..Len(d.items) : d.items[k].key = key}
    IN IF hits = {} THEN Null
       ELSE d.items[CHOOSE k \in hits : \A m \in hits : k >= m].val

\* if ai_results: -- None and the empty dict are falsy.
TruthyResult(r) == r.kind = "dict" /\ r.items # <<>>

\* Lines 89-93: the JSON candidate, from the match of the fenced pattern or,
\* without a match, from the first opening to the last closing brace.
candidate(text, match) ==
    IF match.found THEN match.group2
    ELSE Slice(text, find(text, LBRACE), rfind(text, RBRACE) + 1)

\* Lines 87-93.
json_str(text) == candidate(text, FenceSearch(text))

\* Line 99 and lines 101-103: the decoded object is returned; a decoding
\* error is caught, shown (st.error) and None returned.
decoded(loaded) ==
    IF loaded.ok THEN [value |-> Dict(loaded.items), error |-> FALSE]
    ELSE [value |-> PyNone, error |-> TRUE]

\* Lines 96-99 for the candidate once stripped: the empty dict for an empty
\* candidate, otherwise what json.loads makes of it.
loads_or_empty(stripped) ==
    IF stripped = <<>> THEN [value |-> Dict(<<>>), error |-> FALSE]
    ELSE decoded(json_loads(stripped))

\* Lines 86-103 for a response whose text is text: the value returned and
\* whether the except branch ran.
parse_response(text) == loads_or_empty(strip(json_str(text)))

\* get_gemini_response: call is what model.generate_content does, it
\* raises or it answers with a text.
get_gemini_response(call) ==
    IF call.raises THEN [value |-> PyNone, error |-> TRUE]
    ELSE parse_response(call.text)

(***************************************************************************)
(* Formatting and validation helpers of process_pdf.                       *)
(***************************************************************************)
\* The characters sanitize_filename replaces (line 47).
INVALID_CHARS == {"<", ">", ":", "\"", "/", "\\", "|", "?", "*"}

\* sanitize_filename (lines 45-48): re.sub of every invalid character by _.
sanitize_filename(filename) ==
    [k \in 1..Len(filename) |->
        IF filename[k] \in INVALID_CHARS THEN "_" ELSE filename[k]]

\* The calendar as far as a run can see it: the day the session opens and
\* the days after it (a year's end, so that every field of the date changes).
DateOf(day) ==
    IF day = 0 THEN [y |-> 2026, m |-> 12, d |-> 31]
    ELSE [y |-> 2027, m |-> 1, d |-> day]

\* datetime.strftime with the format of line 189: year, month and day, two
\* digits each.
strftime(date) ==
    zfill(Digits(date.y % 100), 2) \o zfill(Digits(date.m), 2) \o zfill(Digits(date.d), 2)

SUFFIX ==
    <<"-", "o", "r", "d", "e", "r", " ", "d", "e", "t", "a", "i", "l", "s",
      ".", "p", "d", "f">>

\* The f-string of line 191.
make_filename(date_str, sequence_number, sanitized_name, currency) ==
    <<"S">> \o date_str \o <<"-">> \o zfill(Digits(sequence_number), 2) \o <<"_">>
        \o sanitized_name \o <<"_">> \o PyStr(currency) \o SUFFIX

IsDigit(c) == \E d \in 1..10 : DIGITS[d] = c
DigitVal(c) == (CHOOSE d \in 1..10 : DIGITS[d] = c) - 1

RECURSIVE ParseNat(_)
\* int() of a non-empty sequence of digits.
ParseNat(s) ==
    IF Len(s) = 1 THEN DigitVal(s[1])
    ELSE 10 * ParseNat(SubSeq(s, 1, Len(s) - 1)) + DigitVal(s[Len(s)])

RECURSIVE RemoveChar(_, _)
\* str.replace(c, the empty string).
RemoveChar(s, c) ==
    IF s = <<>> THEN <<>>
    ELSE IF Head(s) = c THEN RemoveChar(Tail(s), c)
         ELSE <<Head(s)>> \o RemoveChar(Tail(s), c)

RECURSIVE StripZeros(_)
StripZeros(s) ==
    IF s # <<>> /\ s[Len(s)] = "0" THEN StripZeros(SubSeq(s, 1, Len(s) - 1)) ELSE s

\* str.strip() on characters.
strip_chars(s) ==
    LET nonws == {k \in 1..Len(s) : s[k] # " "}
    IN IF nonws = {} THEN <<>>
       ELSE SubSeq(s, CHOOSE k \in nonws : \A m \in nonws : k <= m,
                      CHOOSE k \in nonws : \A m \in nonws : k >= m)

\* float(s) for the decimal notations without sign or exponent: digits, at
\* most one point, at least one digit, white space around.  The value is the
\* whole part and the fraction digits without trailing zeros; [ok |-> FALSE]
\* stands for ValueError.
float(s) ==
    LET t == strip_chars(s)
        points == {k \in 1..Len(t) : t[k] = "."}
        p == IF points = {} THEN Len(t) + 1 ELSE CHOOSE k \in points : TRUE
        whole == SubSeq(t, 1, p - 1)
        frac == SubSeq(t, p + 1, Len(t))
        wellformed ==
            /\ Cardinality(points) <= 1
            /\ \A k \in 1..Len(t) : k \notin points => IsDigit(t[k])
            /\ Len(whole) + Len(frac) >= 1
    IN IF wellformed
       THEN [ok |-> TRUE,
             whole |-> IF whole = <<>> THEN 0 ELSE ParseNat(whole),
             frac |-> StripZeros(frac)]
       ELSE [ok |-> FALSE, whole |-> 0, frac |-> <<>>]

\* Line 208: float(str(payment_total).replace(',', '')).
payment_float(payment_total) == float(RemoveChar(PyStr(payment_total), ","))

\* Line 188: all three fields are truthy.
required_fields_present(chosen_name, currency, payment_total) ==
    Truthy(chosen_name) /\ Truthy(currency) /\ Truthy(payment_total)

\* The counter is left as it was.
next_sequence_stuck(sequence_number) == sequence_number

\* Line 212.
next_sequence(sequence_number) == sequence_number + 1

(***************************************************************************)
(* The pre-filter (lines 122-134).  A page text is the set of the markers  *)
(* that occur in it.                                                       *)
(***************************************************************************)
\* A pre-filter that takes every page with Summary for a summary page,
\* whether or not it holds a Payment Group.
is_continuation_or_summary_page_any_summary(page_text) ==
    \/ "Summary" \in page_text
    \/ "Fund House :" \notin page_text /\ "WMC Nominees Ltd" \in page_text

\* Lines 126-133: a summary page, or a continuation page.
is_continuation_or_summary_page(page_text) ==
    \/ "Summary" \in page_text /\ "Payment Group" \notin page_text
    \/ "Fund House :" \notin page_text /\ "WMC Nominees Ltd" \in page_text

(***************************************************************************)
(* Inputs of a run.                                                        *)
(***************************************************************************)
\* The page texts a document is made of: a primary settlement page, a
\* summary page, a continuation page (footer only).
PageTexts ==
    { {"Fund House :", "Payment Group"},
      {"Summary"},
      {"WMC Nominees Ltd"} }

RECURSIVE SeqsUpTo(_, _)
\* The sequences over S of length at most n.
SeqsUpTo(S, n) ==
    IF n = 0 THEN {<<>>}
    ELSE LET shorter == SeqsUpTo(S, n - 1)
         IN shorter \cup {Append(q, x) : q \in {r \in shorter : Len(r) = n - 1}, x \in S}

\* The uploaded file: a PDF of up to MaxPages pages, or bytes PdfReader
\* cannot read.
UPLOAD_NAME == <<"u", ".", "p", "d", "f">>
Uploads ==
    {[name |-> UPLOAD_NAME, readable |-> TRUE, pages |-> q] : q \in SeqsUpTo(PageTexts, MaxPages)}
        \cup {[name |-> UPLOAD_NAME, readable |-> FALSE, pages |-> <<>>]}

\* Values of the number input "Last sequence number used" (min_value 0): a
\* first run, and runs whose numbering crosses from one digit to two and
\* from two to three.
LastSequences == {0, 8, 98}

ABC == <<"A", "B", "C">>
USD == <<"U", "S", "D">>
EUR == <<"E", "U", "R">>
TOTAL_1234_56 == <<"1", ",", "2", "3", "4", ".", "5", "6">>
TOTAL_NA == <<"n", "/", "a">>

Object(name, currency, total) ==
    <<LBRACE, Member("simplified_name", name), COMMA, Member("currency", currency),
      COMMA, Member("payment_total", total), RBRACE>>

\* What the vision model does on one call: it raises, or it answers with
\* one of these texts.
ResponseTexts ==
    { <<JUNK>>,                                               \* prose, no braces
      <<LBRACE, JUNK>>,                                       \* opening brace only
      <<LBRACE, JUNK, RBRACE>>,                               \* braces, not JSON
      <<LBRACE, RBRACE>>,                                     \* the empty object
      Object(Str(ABC), Str(USD), Str(TOTAL_1234_56)),
      <<FENCE, JSONWORD, WS>> \o Object(Str(ABC), Str(EUR), Num(5)) \o <<WS, FENCE>>,
      <<LBRACE, Member("simplified_name", Str(ABC)), COMMA,
        Member("payment_total", Num(5)), RBRACE>>,            \* no currency
      Object(Str(ABC), Str(USD), Str(TOTAL_NA)),              \* total is no number
      Object(Num(7), Str(USD), Num(5)) }                      \* name is a number

ModelCalls ==
    {[raises |-> TRUE, text |-> <<>>]} \cup {[raises |-> FALSE, text |-> t] : t \in ResponseTexts}

(***************************************************************************)
(* State.                                                                  *)
(***************************************************************************)
VARIABLES
    pc,               \* "waiting" for the button, "idle" before the call of
                      \* process_pdf, "loop" inside its for loop, "returned"
    uploaded_file,    \* the upload handed to process_pdf
    start_sequence,   \* the argument start_sequence
    page_number,      \* the loop variable
    total_pages,      \* len(reader.pages)
    sequence_number,  \* the running sequence counter
    generated_files,  \* the list being accumulated
    result,           \* the pair process_pdf returns
    disk,             \* the files in TEMP_DIR and OUTPUT_FOLDER
    today,            \* the calendar day, counted from the day the session opens
    status,           \* the messages shown (status_area and st.error), in order
    verdicts,         \* history: how each visited page ended
    render_calls,     \* history: the pages convert_pdf_to_image was called for
    ai_calls,         \* history: the pages get_gemini_response was called for
    started_on,       \* history: the calendar day on which the run started
    answers,          \* history: what get_gemini_response returned, per call
    response_text,    \* the parser on its own: the text handed to it
    parsed,           \* the parser on its own: what it returned for response_text
    app,              \* the script the session runs: "split" (split.py) or "main" (main.py)
    processed_files,  \* st.session_state.processed_files: the files staged for download
    drafts,           \* history: the draft creations attempted by the last handler
    runs              \* the number of times the process button was pressed

vars ==
    <<pc, uploaded_file, start_sequence, page_number, total_pages, sequence_number,
      generated_files, result, disk, today, status, verdicts, render_calls, ai_calls,
      started_on, answers, response_text, parsed, app, processed_files, drafts, runs>>

\* The variables of a run of process_pdf.
run_vars ==
    <<pc, uploaded_file, start_sequence, page_number, total_pages, sequence_number,
      generated_files, result, disk, today, status, verdicts, render_calls, ai_calls,
      started_on, answers>>

\* The variables of the Streamlit session around it.
session_vars == <<app, processed_files, drafts, runs>>

TEMP_DIR == "temp"
OUTPUT_FOLDER == "output"

\* open(path, 'wb') and write: the file is created or replaced.
WriteFile(d, dir, name, content) ==
    {f \in d : ~(f.dir = dir /\ f.name = name)}
        \cup {[dir |-> dir, name |-> name, content |-> content]}

\* os.remove.
RemoveFile(d, dir, name) == {f \in d : ~(f.dir = dir /\ f.name = name)}

\* The content of the upload, as opposed to a page of it.
WHOLE_DOCUMENT == -1

NoResult == [files |-> <<>>, sequence |-> 0]
NotParsed == [done |-> FALSE, value |-> PyNone, error |-> FALSE]

\* No draft was attempted: get_gmail_service was not called.
NoDrafts == [service |-> "not_called", attempts |-> <<>>]

\* The session inside the button handler of split.py (lines 249-255): the
\* button was pressed once, processed_files was reset and process_pdf is
\* being called.
InHandler ==
    /\ app = "split"
    /\ processed_files = <<>>
    /\ drafts = NoDrafts
    /\ runs = 1

Init ==
    /\ pc = "idle"
    /\ uploaded_file \in Uploads
    /\ start_sequence \in {last_sequence + 1 : last_sequence \in LastSequences}
    /\ page_number = 0
    /\ total_pages = 0
    /\ sequence_number = 0
    /\ generated_files = <<>>
    /\ result = NoResult
    /\ disk = {}
    /\ today = 0
    /\ status = <<>>
    /\ verdicts = <<>>
    /\ render_calls = <<>>
    /\ ai_calls = <<>>
    /\ started_on = 0
    /\ answers = <<>>
    /\ response_text = <<>>
    /\ parsed = NotParsed
    /\ InHandler

(***************************************************************************)
(* One iteration of the for loop of process_pdf (lines 153-214), as a      *)
(* function of what the iteration reads.  Its value says how the page      *)
(* ended, which collaborators were called, the messages shown, the entry   *)
(* appended to generated_files (none or one), the file written under       *)
(* OUTPUT_FOLDER (none or one) and whether an exception left the loop.     *)
(***************************************************************************)
Msg(kind, page) == [kind |-> kind, page |-> page]

Skipped(verdict, rendered, asked, msgs) ==
    [verdict |-> verdict, rendered |-> rendered, asked |-> asked, msgs |-> msgs,
     files |-> <<>>, written |-> <<>>, accepted |-> FALSE, crashed |-> FALSE]

Crashed(verdict, written) ==
    [verdict |-> verdict, rendered |-> TRUE, asked |-> TRUE, msgs |-> <<>>,
     files |-> <<>>, written |-> written, accepted |-> FALSE, crashed |-> TRUE]

\* Lines 192-212: the page is written to OUTPUT_FOLDER and read back, and the
\* entry appended.  float (line 208) raises ValueError on a total that is no
\* number, after the file was written.
write_and_append(filename, currency, total, page) ==
    IF ~total.ok
    THEN Crashed("CrashedOnTotal",
                 <<[dir |-> OUTPUT_FOLDER, name |-> filename, content |-> page]>>)
    ELSE [verdict |-> "Accepted", rendered |-> TRUE, asked |-> TRUE,
          msgs |-> <<Msg("success", page + 1)>>,
          files |-> <<[filename |-> filename,
                       content |-> page,
                       currency |-> currency,
                       payment_total |-> [whole |-> total.whole, frac |-> total.frac]]>>,
          written |-> <<[dir |-> OUTPUT_FOLDER, name |-> filename, content |-> page]>>,
          accepted |-> TRUE, crashed |-> FALSE]

\* Lines 188-214: the test of the three fields and the naming of the file.
\* sanitize_filename raises TypeError on a name that is no string, before
\* anything is written.
accept_fields(chosen_name, currency, payment_total, now, seq, page) ==
    IF ~required_fields_present(chosen_name, currency, payment_total)
    THEN Skipped("Rejected", TRUE, TRUE, <<Msg("incomplete", page + 1)>>)
    ELSE IF chosen_name.t # "str"
    THEN Crashed("CrashedOnName", <<>>)
    ELSE write_and_append(
             make_filename(strftime(DateOf(now)), seq, sanitize_filename(chosen_name.s),
                           currency),
             currency, payment_float(payment_total), page)

\* Lines 183-214: the fields are read, checked and turned into a file.
accept_phase(ai_results, now, seq, page) ==
    accept_fields(Get(ai_results, "simplified_name"), Get(ai_results, "currency"),
                  Get(ai_results, "payment_total"), now, seq, page)

\* The messages of get_gemini_response come before those of the loop body.
After(shown, o) == [o EXCEPT !.msgs = shown \o o.msgs]

\* Lines 173-214 for what get_gemini_response returned.  The dict test of
\* line 178 cannot fail: json.loads of a text that starts with a brace
\* yields a dict or raises.
on_response(call, response, now, seq, page) ==
    IF TruthyResult(response.value)
    THEN After(IF response.error THEN <<Msg("ai_error", page + 1)>> ELSE <<>>,
               accept_phase(response.value, now, seq, page))
    ELSE Skipped(IF call.raises THEN "AIFail"
                 ELSE IF response.error THEN "Malformed" ELSE "Empty",
                 TRUE, TRUE,
                 IF response.error THEN <<Msg("ai_error", page + 1)>> ELSE <<>>)

\* Lines 171-214: the AI call and what follows it.
ai_phase(call, now, seq, page) ==
    on_response(call, get_gemini_response(call), now, seq, page)

\* The iteration with a rendering failure left to the except branch of
\* process_pdf, instead of the test of line 167.
iteration_render_raises(page_text, image_ok, call, now, seq, page) ==
    IF is_continuation_or_summary_page(page_text)
    THEN Skipped("SkipEarly", FALSE, FALSE, <<Msg("skipping", page + 1)>>)
    ELSE IF ~image_ok
    THEN [verdict |-> "RenderFail", rendered |-> TRUE, asked |-> FALSE, msgs |-> <<>>,
          files |-> <<>>, written |-> <<>>, accepted |-> FALSE, crashed |-> TRUE]
    ELSE ai_phase(call, now, seq, page)

\* The iteration with the pre-filter applied after the rendering, not
\* before it.
iteration_filters_late(page_text, image_ok, call, now, seq, page) ==
    IF ~image_ok
    THEN Skipped("RenderFail", TRUE, FALSE, <<Msg("render_failed", page + 1)>>)
    ELSE IF is_continuation_or_summary_page(page_text)
    THEN Skipped("SkipEarly", TRUE, FALSE, <<Msg("skipping", page + 1)>>)
    ELSE ai_phase(call, now, seq, page)

\* Lines 159-169, then the rest of the iteration: the pre-filter, and the
\* rendering of the page, which yields an image or None.
iteration(page_text, image_ok, call, now, seq, page) ==
    IF is_continuation_or_summary_page(page_text)
    THEN Skipped("SkipEarly", FALSE, FALSE, <<Msg("skipping", page + 1)>>)
    ELSE IF ~image_ok
    THEN Skipped("RenderFail", TRUE, FALSE, <<Msg("render_failed", page + 1)>>)
    ELSE ai_phase(call, now, seq, page)

(***************************************************************************)
(* process_pdf (lines 136-229).                                            *)
(***************************************************************************)
\* A reader that takes an unreadable upload for a document without pages.
open_document_lenient(upload) == [ok |-> TRUE, total_pages |-> Len(upload.pages)]

\* Lines 149-150: PdfReader on the temporary copy and the page count.
open_document(upload) ==
    IF upload.readable THEN [ok |-> TRUE, total_pages |-> Len(upload.pages)]
    ELSE [ok |-> FALSE, total_pages |-> 0]

\* Line 222: what the except branch returns.
fatal_result(start) == [files |-> <<>>, sequence |-> start]

\* The last number used is returned, not the next one available.
completed_result_last_used(files, seq) == [files |-> files, sequence |-> seq - 1]

\* Line 218: what a completed run returns.
completed_result(files, seq) == [files |-> files, sequence |-> seq]

\* Lines 223-229: the finally clause removes the temporary copy.
cleanup(d, upload) == RemoveFile(d, TEMP_DIR, upload.name)

Open(copied, reader) ==
    IF reader.ok
    THEN /\ pc' = "loop"
         /\ total_pages' = reader.total_pages
         /\ sequence_number' = start_sequence
         /\ disk' = copied
         /\ UNCHANGED <<status, result>>
    ELSE /\ pc' = "returned"
         /\ status' = Append(status, Msg("critical", 0))
         /\ result' = fatal_result(start_sequence)
         /\ disk' = cleanup(copied, uploaded_file)
         /\ UNCHANGED <<total_pages, sequence_number>>

\* Lines 141-151: the upload is copied to TEMP_DIR and opened.  If it cannot
\* be read the except branch and the finally clause run at once.
Start ==
    /\ pc = "idle"
    /\ started_on' = today
    /\ Open(WriteFile(disk, TEMP_DIR, uploaded_file.name, WHOLE_DOCUMENT),
            open_document(uploaded_file))
    /\ UNCHANGED <<uploaded_file, start_sequence, page_number, generated_files, today,
                   verdicts, render_calls, ai_calls, answers, response_text, parsed,
                   session_vars>>

\* The new entry is put in front of the list.
append_in_front(files, entry) == entry \o files

\* Line 204: generated_files.append, of the entry of an accepted page (entry
\* is empty for any other page).
append(files, entry) == files \o entry

\* The effect of one iteration whose outcome is o on the state of the run:
\* lines 204-212 on acceptance, lines 220-229 when the iteration raised.
AfterWrite(d, written) ==
    IF written = <<>> THEN d
    ELSE WriteFile(d, written[1].dir, written[1].name, written[1].content)

Iterate(o, answer) ==
    /\ verdicts' = Append(verdicts, o.verdict)
    /\ answers' = IF o.asked THEN Append(answers, answer) ELSE answers
    /\ render_calls' = IF o.rendered THEN Append(render_calls, page_number)
                       ELSE render_calls
    /\ ai_calls' = IF o.asked THEN Append(ai_calls, page_number) ELSE ai_calls
    /\ IF o.crashed
       THEN /\ pc' = "returned"
            /\ status' = (status \o o.msgs) \o <<Msg("critical", 0)>>
            /\ result' = fatal_result(start_sequence)
            /\ disk' = cleanup(AfterWrite(disk, o.written), uploaded_file)
            /\ UNCHANGED <<page_number, sequence_number, generated_files>>
       ELSE /\ pc' = "loop"
            /\ status' = status \o o.msgs
            /\ generated_files' = append(generated_files, o.files)
            /\ sequence_number' = IF o.accepted THEN next_sequence(sequence_number)
                                  ELSE sequence_number
            /\ page_number' = page_number + 1
            /\ disk' = AfterWrite(disk, o.written)
            /\ UNCHANGED result

\* Lines 153-214, and 220-229 when the iteration raises, the vision model
\* behaving as one of calls.
ProcessPageWith(calls) ==
    /\ pc = "loop"
    /\ page_number < total_pages
    /\ \E image_ok \in BOOLEAN, call \in calls :
          Iterate(iteration(uploaded_file.pages[page_number + 1], image_ok, call,
                            today, sequence_number, page_number),
                  get_gemini_response(call).value)
    /\ UNCHANGED <<uploaded_file, start_sequence, total_pages, today, started_on,
                   response_text, parsed, session_vars>>

ProcessPage == ProcessPageWith(ModelCalls)

\* Lines 216-218 and 223-229: the loop is over, the result is returned and
\* the temporary copy removed.
Complete ==
    /\ pc = "loop"
    /\ page_number = total_pages
    /\ pc' = "returned"
    /\ status' = Append(status, Msg("complete", 0))
    /\ result' = completed_result(generated_files, sequence_number)
    /\ disk' = cleanup(disk, uploaded_file)
    /\ UNCHANGED <<uploaded_file, start_sequence, page_number, total_pages,
                   sequence_number, generated_files, today, verdicts, render_calls,
                   ai_calls, started_on, answers, response_text, parsed, session_vars>>

\* Midnight passes (datetime.now() of line 189 reads the clock).
Tick ==
    /\ pc # "returned"
    /\ today < MaxTicks
    /\ today' = today + 1
    /\ UNCHANGED <<pc, uploaded_file, start_sequence, page_number, total_pages,
                   sequence_number, generated_files, result, disk, status, verdicts,
                   render_calls, ai_calls, started_on, answers, response_text, parsed,
                   session_vars>>

Next == Start \/ ProcessPage \/ Complete \/ Tick

Spec == Init /\ [][Next]_vars

(***************************************************************************)
(* The response parsing on its own: every text of up to MaxTextLen tokens  *)
(* is handed to lines 86-103 of get_gemini_response.                       *)
(***************************************************************************)
Tokens ==
    {LBRACE, RBRACE, COMMA, WS, FENCE, JSONWORD, JUNK, Member("currency", Str(USD))}

ParseInit ==
    /\ pc = "idle"
    /\ uploaded_file = [name |-> UPLOAD_NAME, readable |-> TRUE, pages |-> <<>>]
    /\ start_sequence = 1
    /\ page_number = 0
    /\ total_pages = 0
    /\ sequence_number = 0
    /\ generated_files = <<>>
    /\ result = NoResult
    /\ disk = {}
    /\ today = 0
    /\ status = <<>>
    /\ verdicts = <<>>
    /\ render_calls = <<>>
    /\ ai_calls = <<>>
    /\ started_on = 0
    /\ answers = <<>>
    /\ response_text \in SeqsUpTo(Tokens, MaxTextLen)
    /\ parsed = NotParsed
    /\ InHandler

Parsed(response) == [done |-> TRUE, value |-> response.value, error |-> response.error]

ParseText ==
    /\ ~parsed.done
    /\ parsed' = Parsed(parse_response(response_text))
    /\ UNCHANGED <<run_vars, response_text, session_vars>>

ParseNext == ParseText

SpecParse == ParseInit /\ [][ParseNext]_vars

(***************************************************************************)
(* One page on its own: a document of one page, whose text holds any of    *)
(* the four markers the pre-filter looks for, is processed with the vision *)
(* model answering a well-formed object whose three fields vary.           *)
(***************************************************************************)
Markers == {"Summary", "Payment Group", "Fund House :", "WMC Nominees Ltd"}

PageUploads ==
    {[name |-> UPLOAD_NAME, readable |-> TRUE, pages |-> <<m>>] : m \in SUBSET Markers}

A_DASH_B == <<"A", "-", "B">>
MFEX_BLACKROCK ==
    <<"M", "F", "E", "X", " ", "-", " ", "B", "l", "a", "c", "k", "R", "o", "c", "k">>
A_SLASH_B == <<"A", "/", "B">>
USD_LOWER_PADDED == <<" ", "u", "s", "d", " ">>
U_COLON_D == <<"U", ":", "D">>

\* The values the vision model returns for the three fields.  No currency
\* holds a path separator, so that open() of line 198 finds its directory.
FieldNames == {Str(ABC), Str(A_DASH_B), Str(MFEX_BLACKROCK), Str(A_SLASH_B), Str(<<>>)}
FieldCurrencies == {Str(USD), Str(USD_LOWER_PADDED), Str(U_COLON_D), Str(<<>>)}
FieldTotals == {Str(TOTAL_1234_56), Str(<<"0">>), Str(<<>>), Num(0), Num(5)}

FieldCalls ==
    {[raises |-> FALSE, text |-> Object(name, currency, total)] :
        name \in FieldNames, currency \in FieldCurrencies, total \in FieldTotals}

PageInit ==
    /\ pc = "idle"
    /\ uploaded_file \in PageUploads
    /\ start_sequence = 1
    /\ page_number = 0
    /\ total_pages = 0
    /\ sequence_number = 0
    /\ generated_files = <<>>
    /\ result = NoResult
    /\ disk = {}
    /\ today = 0
    /\ status = <<>>
    /\ verdicts = <<>>
    /\ render_calls = <<>>
    /\ ai_calls = <<>>
    /\ started_on = 0
    /\ answers = <<>>
    /\ response_text = <<>>
    /\ parsed = NotParsed
    /\ InHandler

ProcessFields == ProcessPageWith(FieldCalls)

PageNext == Start \/ ProcessFields \/ Complete

SpecPage == PageInit /\ [][PageNext]_vars

(***************************************************************************)
(* The Streamlit session: the process button is pressed up to MaxRuns      *)
(* times, in the script of split.py (lines 234-277) or in that of main.py  *)
(* (lines 43-162).  main.py calls process_pdf with three arguments and     *)
(* uses what it returns as the list of files; the process_pdf of split.py  *)
(* takes four and returns a pair, so the function main.py was written for  *)
(* is modelled from the design specification: the same run, of which the   *)
(* caller receives the list of generated files.  get_gmail_service,        *)
(* create_settlement_template and create_draft_email (module email_draft)  *)
(* are modelled by their outcomes.                                         *)
(***************************************************************************)
\* Largest number of times the button is pressed in a session.
MaxRuns == 2

\* The documents uploaded in a session: two settlement pages, or bytes
\* PdfReader cannot read.
SessionUploads ==
    { [name |-> UPLOAD_NAME, readable |-> TRUE,
       pages |-> << {"Fund House :", "Payment Group"}, {"Fund House :", "Payment Group"} >>],
      [name |-> UPLOAD_NAME, readable |-> FALSE, pages |-> <<>>] }

\* The vision model in a session: a complete object, or the empty object.
SessionCalls ==
    { [raises |-> FALSE, text |-> Object(Str(ABC), Str(USD), Str(TOTAL_1234_56))],
      [raises |-> FALSE, text |-> <<LBRACE, RBRACE>>] }

\* split.py line 255 and main.py line 58: the first sequence number of a
\* run, from the number input (min_value 0).
first_sequence(last_sequence) == IF last_sequence > 0 THEN last_sequence + 1 ELSE 1

\* split.py line 250 resets the staged files when the button is pressed;
\* main.py has no such statement.
staged_on_press(script, staged) == IF script = "split" THEN <<>> ELSE staged

\* split.py lines 256-257 and main.py lines 70-71: the files of the run are
\* staged if there are any.
staged_on_return(staged, files) == IF files # <<>> THEN files ELSE staged

\* What main.py line 69 receives from process_pdf: the list of files.
files_returned_to_main(returned) == returned.files

\* get_gmail_service returns a service or nothing.
GmailServices == {"service", "none"}

\* What happens inside the try of main.py lines 82-104 for one file:
\* create_draft_email returns a draft id, returns none, or one of the two
\* calls raises.
DraftOutcomes == {"draft_id", "no_draft_id", "raises"}

\* The loop with the try around it instead of inside it: the first exception
\* ends the loop.
draft_loop_try_outside(files, outcomes) ==
    LET raised == {i \in 1..Len(files) : outcomes[i] = "raises"}
        last == IF raised = {} THEN Len(files)
                ELSE CHOOSE i \in raised : \A j \in raised : i <= j
    IN [i \in 1..last |-> [filename |-> files[i].filename, outcome |-> outcomes[i]]]

\* main.py lines 81-107: one pass of the loop per file, whatever the
\* outcome of the passes before it.
draft_loop(files, outcomes) ==
    [i \in 1..Len(files) |-> [filename |-> files[i].filename, outcome |-> outcomes[i]]]

\* main.py lines 75-107: the service is fetched, and without one the handler
\* returns before the loop.
create_drafts(files, service, outcomes) ==
    IF files = <<>> THEN NoDrafts
    ELSE IF service = "none" THEN [service |-> "none", attempts |-> <<>>]
    ELSE [service |-> "service", attempts |-> draft_loop(files, outcomes)]

SessionInit ==
    /\ pc = "waiting"
    /\ uploaded_file = [name |-> UPLOAD_NAME, readable |-> TRUE, pages |-> <<>>]
    /\ start_sequence = 1
    /\ page_number = 0
    /\ total_pages = 0
    /\ sequence_number = 0
    /\ generated_files = <<>>
    /\ result = NoResult
    /\ disk = {}
    /\ today = 0
    /\ status = <<>>
    /\ verdicts = <<>>
    /\ render_calls = <<>>
    /\ ai_calls = <<>>
    /\ started_on = 0
    /\ answers = <<>>
    /\ response_text = <<>>
    /\ parsed = NotParsed
    /\ app \in {"split", "main"}
    /\ processed_files = <<>>
    /\ drafts = NoDrafts
    /\ runs = 0

\* The button is pressed on an upload (split.py lines 246-255, main.py
\* lines 63-69): process_pdf is about to be called.
Press ==
    /\ pc = "waiting"
    /\ runs < MaxRuns
    /\ \E upload \in SessionUploads, last_sequence \in {0} :
          /\ uploaded_file' = upload
          /\ start_sequence' = first_sequence(last_sequence)
    /\ pc' = "idle"
    /\ runs' = runs + 1
    /\ processed_files' = staged_on_press(app, processed_files)
    /\ drafts' = NoDrafts
    /\ page_number' = 0
    /\ total_pages' = 0
    /\ sequence_number' = 0
    /\ generated_files' = <<>>
    /\ result' = NoResult
    /\ status' = <<>>
    /\ verdicts' = <<>>
    /\ render_calls' = <<>>
    /\ ai_calls' = <<>>
    /\ answers' = <<>>
    /\ UNCHANGED <<disk, today, started_on, response_text, parsed, app>>

ProcessInSession == ProcessPageWith(SessionCalls)

\* split.py lines 255-265: the handler after process_pdf has returned.
FinishSplit ==
    /\ pc = "returned"
    /\ app = "split"
    /\ pc' = "waiting"
    /\ processed_files' = staged_on_return(processed_files, result.files)
    /\ UNCHANGED <<uploaded_file, start_sequence, page_number, total_pages,
                   sequence_number, generated_files, result, disk, today, status,
                   verdicts, render_calls, ai_calls, started_on, answers,
                   response_text, parsed, app, drafts, runs>>

\* main.py lines 69-107: the handler after process_pdf has returned.
FinishMain ==
    /\ pc = "returned"
    /\ app = "main"
    /\ pc' = "waiting"
    /\ processed_files' = staged_on_return(processed_files, files_returned_to_main(result))
    /\ \E service \in GmailServices,
          outcomes \in [1..Len(files_returned_to_main(result)) -> DraftOutcomes] :
          drafts' = create_drafts(files_returned_to_main(result), service, outcomes)
    /\ UNCHANGED <<uploaded_file, start_sequence, page_number, total_pages,
                   sequence_number, generated_files, result, disk, today, status,
                   verdicts, render_calls, ai_calls, started_on, answers,
                   response_text, parsed, app, runs>>

SessionNext == Press \/ Start \/ ProcessInSession \/ Complete \/ FinishSplit \/ FinishMain

SpecSession == SessionInit /\ [][SessionNext]_vars

(***************************************************************************)
(* Properties.                                                             *)
(***************************************************************************)
Range(q) == {q[k] : k \in 1..Len(q)}
Last(q) == q[Len(q)]

\* The pages accepted so far, and how the run ended.
AcceptedCount == Cardinality({k \in 1..Len(verdicts) : verdicts[k] = "Accepted"})
Completed == pc = "returned" /\ Last(status) = Msg("complete", 0)

\* The sequence number read back from a filename: the digits between the
\* dash that follows the date and the first underscore.
EmbeddedSequence(filename) ==
    LET us == CHOOSE k \in 9..Len(filename) :
                  filename[k] = "_" /\ \A m \in 9..(k - 1) : filename[m] # "_"
    IN ParseNat(SubSeq(filename, 9, us - 1))

\* A filename without its sequence number.
WithoutSequence(filename) ==
    LET us == CHOOSE k \in 9..Len(filename) :
                  filename[k] = "_" /\ \A m \in 9..(k - 1) : filename[m] # "_"
    IN SubSeq(filename, 1, 8) \o SubSeq(filename, us, Len(filename))

\* The date stamp of a filename.
DateStamp(filename) == SubSeq(filename, 2, 7)

Numbered(files) ==
    \A i \in 1..Len(files) : EmbeddedSequence(files[i].filename) = start_sequence + i - 1

\* C1: the sequence numbers embedded in the generated files, in list order,
\* are start_sequence, start_sequence+1, ... without gaps, in the list being
\* accumulated and in the list returned; one file per accepted page; and the
\* counter stands at start_sequence plus the number of accepted pages, so a
\* page that is skipped or rejected consumes no number.
C1_GaplessSequence ==
    /\ Numbered(generated_files)
    /\ Numbered(result.files)
    /\ Len(generated_files) = AcceptedCount
    /\ (pc # "idle" /\ uploaded_file.readable) =>
          sequence_number = start_sequence + AcceptedCount
    /\ Completed => Len(result.files) = AcceptedCount

\* C1 witness: a completed run that returns two files whose pages had a page
\* without a file between them, numbered across a change of width.
C1_Witness ==
    /\ Completed
    /\ Len(result.files) = 2
    /\ start_sequence = 99
    /\ verdicts[1] = "Accepted" /\ verdicts[2] # "Accepted" /\ verdicts[3] = "Accepted"

TransientVerdicts == {"RenderFail", "AIFail", "Malformed", "Empty"}

\* C3: an iteration that ends in a render failure, an AI-call failure, a
\* malformed response or an empty response adds no file, leaves the sequence
\* counter and the result alone, and goes on to the next page: the loop is
\* not left.
C3_TransientFailureSkipsPage ==
    [][(/\ pc = "loop"
        /\ Len(verdicts') = Len(verdicts) + 1
        /\ Last(verdicts') \in TransientVerdicts)
         => (/\ generated_files' = generated_files
             /\ sequence_number' = sequence_number
             /\ result' = result
             /\ disk' = disk
             /\ pc' = "loop"
             /\ page_number' = page_number + 1)]_vars

\* C3 witness: a completed run in which a render failure and a malformed
\* response were followed by an accepted page.
C3_Witness ==
    /\ Completed
    /\ Len(verdicts) = 3
    /\ verdicts[1] = "RenderFail" /\ verdicts[2] = "Malformed" /\ verdicts[3] = "Accepted"
    /\ Len(result.files) = 1

Distinct(files) ==
    \A i, j \in 1..Len(files) : i # j => files[i].filename # files[j].filename

\* C4: the filenames of the generated files of a run are pairwise distinct.
C4_DistinctFilenames == Distinct(generated_files) /\ Distinct(result.files)

\* C4 witness: a run returns two files that agree in date, name and currency.
C4_Witness ==
    /\ Completed
    /\ \E i, j \in 1..Len(result.files) :
          /\ i # j
          /\ WithoutSequence(result.files[i].filename)
                = WithoutSequence(result.files[j].filename)

\* C5: for a page the pre-filter classifies as summary or continuation there
\* is no render call, no AI call, no generated file and no file written.
C5_PrefilteredPagesUntouched ==
    \A k \in 1..Len(verdicts) :
        is_continuation_or_summary_page(uploaded_file.pages[k]) =>
            /\ (k - 1) \notin Range(render_calls)
            /\ (k - 1) \notin Range(ai_calls)
            /\ \A i \in 1..Len(generated_files) : generated_files[i].content # k - 1
            /\ \A i \in 1..Len(result.files) : result.files[i].content # k - 1
            /\ \A f \in disk : f.content # k - 1

\* C5 witness: a completed run over a summary page, a continuation page and
\* an accepted page.
C5_Witness ==
    /\ Completed
    /\ Len(verdicts) = 3
    /\ uploaded_file.pages[1] = {"Summary"}
    /\ uploaded_file.pages[2] = {"WMC Nominees Ltd"}
    /\ verdicts[3] = "Accepted"

\* C6: a completed run has visited every page and returns the accumulated
\* files with the next available number, which is start_sequence plus the
\* number of files; one file per accepted page; nothing accepted, then the
\* empty list and start_sequence.
C6_CompletedResult ==
    Completed =>
        /\ Len(verdicts) = total_pages
        /\ result.files = generated_files
        /\ result.sequence = start_sequence + Len(result.files)
        /\ Len(result.files) = AcceptedCount
        /\ AcceptedCount = 0 => result = [files |-> <<>>, sequence |-> start_sequence]

\* C6 witness: a completed run with two accepted pages and one that was not.
C6_Witness ==
    /\ Completed
    /\ total_pages = 3
    /\ AcceptedCount = 2
    /\ result.sequence = start_sequence + 2

\* C9: with a source document that cannot be read the loop is never
\* entered, no page is visited, rendered or sent to the AI, and the run
\* returns the empty list with start_sequence after reporting the error.
C9_UnreadableSourceAborts ==
    ~uploaded_file.readable =>
        /\ pc # "loop"
        /\ verdicts = <<>> /\ render_calls = <<>> /\ ai_calls = <<>>
        /\ generated_files = <<>>
        /\ pc = "returned" =>
              /\ result = [files |-> <<>>, sequence |-> start_sequence]
              /\ status = <<Msg("critical", 0)>>

\* C9 witness: the run on an unreadable upload has returned.
C9_Witness ==
    /\ pc = "returned"
    /\ ~uploaded_file.readable
    /\ start_sequence = 9

\* C2: a page whose payment_total cannot be parsed ends as a rejected page
\* only: the run is not fatal, it visits the remaining pages, and the files
\* accepted for earlier pages are returned.
C2_UnparseableTotalRejectsPageOnly ==
    \A k \in 1..Len(verdicts) :
        verdicts[k] = "CrashedOnTotal" =>
            /\ pc = "returned" => Completed /\ Len(verdicts) = total_pages
            /\ pc = "returned" => result.files = generated_files

\* C7: once process_pdf has returned, neither the temporary copy of the
\* upload nor any single-page extract is left on disk.
C7_NoArtifactsAfterReturn == pc = "returned" => disk = {}

\* C8: every generated filename carries the date on which the run started.
C8_RunStartDateInEveryFilename ==
    \A i \in 1..Len(generated_files) :
        DateStamp(generated_files[i].filename) = strftime(DateOf(started_on))

HasBrace(text) == \E k \in 1..Len(text) : text[k] = LBRACE \/ text[k] = RBRACE

\* An opening brace, and no span of the text that starts at an opening brace
\* decodes as an object.
MalformedObject(text) ==
    /\ \E k \in 1..Len(text) : text[k] = LBRACE
    /\ \A i, j \in 1..Len(text) :
          (i <= j /\ text[i] = LBRACE) => ~json_loads(SubSeq(text, i, j)).ok

\* C10: the parser yields the empty mapping for a text without braces, and
\* None, never the empty mapping, for a text with an opening brace whose
\* content does not decode as an object, with or without a closing brace.
C10_MalformedIsNotEmpty ==
    parsed.done =>
        /\ ~HasBrace(response_text) => parsed.value = Dict(<<>>)
        /\ MalformedObject(response_text) => parsed.value = PyNone

\* The verdict of the page the k-th AI call was made for.
VerdictOfCall(k) == verdicts[ai_calls[k] + 1]

NonEmptyString(v) == v.t = "str" /\ v.s # <<>>

\* A number, or a string that reads as a decimal once its thousands
\* separators are removed.
DecimalTotal(v) == v.t = "num" \/ (v.t = "str" /\ payment_float(v).ok)

\* C11: a page whose parsed mapping has a non-empty simplified_name, a
\* non-empty currency and a payment_total that is a number or a string
\* parseable as a decimal (the number 0 and "1,234.56" included) is accepted.
C11_ValidFieldsAreAccepted ==
    \A k \in 1..Len(answers) :
        (/\ answers[k].kind = "dict"
         /\ NonEmptyString(Get(answers[k], "simplified_name"))
         /\ NonEmptyString(Get(answers[k], "currency"))
         /\ DecimalTotal(Get(answers[k], "payment_total")))
            => VerdictOfCall(k) = "Accepted"

\* What the vision model answered for a page it was asked about.
AnswerOfPage(page) == answers[CHOOSE k \in 1..Len(ai_calls) : ai_calls[k] = page]

\* The part of a filename between the underscore that follows the sequence
\* number and the fixed suffix: the name, an underscore and the currency.
Stem(filename) ==
    LET us == CHOOSE k \in 9..Len(filename) :
                  filename[k] = "_" /\ \A m \in 9..(k - 1) : filename[m] # "_"
    IN SubSeq(filename, us + 1, Len(filename) - Len(SUFFIX))

\* The name and the currency of a generated file as its filename shows them.
NameComponent(file) ==
    SubSeq(Stem(file.filename), 1, Len(Stem(file.filename)) - Len(PyStr(file.currency)) - 1)
CurrencyComponent(file) ==
    SubSeq(Stem(file.filename), Len(Stem(file.filename)) - Len(PyStr(file.currency)) + 1,
           Len(Stem(file.filename)))

HasDash(name) == \E k \in 1..Len(name) : name[k] = "-"
BeforeFirstDash(name) ==
    SubSeq(name, 1, (CHOOSE k \in 1..Len(name) :
                        name[k] = "-" /\ \A m \in 1..(k - 1) : name[m] # "-") - 1)

MFEX == <<"M", "F", "E", "X">>
\* The special cases of the naming rule, of which the names returned here
\* hold one: a name that contains MFEX becomes MFEX.
IsSpecialCase(name) ==
    \E k \in 1..(Len(name) - 3) : SubSeq(name, k, k + 3) = MFEX

\* C13: for an accepted page whose extracted name holds a dash and is no
\* special case, the name in the filename is the part of the extracted name
\* before its first dash; for MFEX - BlackRock it is MFEX.
C13_NameCutAtFirstDash ==
    \A i \in 1..Len(generated_files) :
        LET extracted == Get(AnswerOfPage(generated_files[i].content), "simplified_name").s
        IN HasDash(extracted) =>
              NameComponent(generated_files[i]) =
                  IF IsSpecialCase(extracted) THEN MFEX ELSE BeforeFirstDash(extracted)

LOWERCASE ==
    <<"a", "b", "c", "d", "e", "f", "g", "h", "i", "j", "k", "l", "m",
      "n", "o", "p", "q", "r", "s", "t", "u", "v", "w", "x", "y", "z">>
UPPERCASE ==
    <<"A", "B", "C", "D", "E", "F", "G", "H", "I", "J", "K", "L", "M",
      "N", "O", "P", "Q", "R", "S", "T", "U", "V", "W", "X", "Y", "Z">>

\* The string in upper case.
upper(s) ==
    [k \in 1..Len(s) |->
        IF \E a \in 1..26 : LOWERCASE[a] = s[k]
        THEN UPPERCASE[CHOOSE a \in 1..26 : LOWERCASE[a] = s[k]]
        ELSE s[k]]

\* The extracted currency without surrounding white space, in upper case.
Normalized(currency) == upper(strip_chars(currency))

\* C14: the currency of every generated file, in its currency field and in
\* its filename, is the extracted currency trimmed and in upper case.
C14_CurrencyTrimmedUppercased ==
    \A i \in 1..Len(generated_files) :
        LET extracted == Get(AnswerOfPage(generated_files[i].content), "currency")
        IN extracted.t = "str" =>
              /\ generated_files[i].currency = Str(Normalized(extracted.s))
              /\ CurrencyComponent(generated_files[i]) = Normalized(extracted.s)

\* C17: no filename of a generated file holds one of the characters that are
\* invalid in filenames, whatever name and currency were extracted.
C17_FilenameHasNoInvalidCharacter ==
    \A i \in 1..Len(generated_files) :
        \A k \in 1..Len(generated_files[i].filename) :
            generated_files[i].filename[k] \notin INVALID_CHARS

\* C16: a visited page is skipped by the pre-filter, without rendering or AI
\* call, exactly when its text holds Summary and no Payment Group, or holds
\* the footer WMC Nominees Ltd and no Fund House header; every other page is
\* rendered and, once rendered, handed to the vision model.
C16_PrefilterExact ==
    \A k \in 1..Len(verdicts) :
        LET text == uploaded_file.pages[k]
            summary == "Summary" \in text /\ "Payment Group" \notin text
            continuation == "Fund House :" \notin text /\ "WMC Nominees Ltd" \in text
        IN IF summary \/ continuation
           THEN /\ verdicts[k] = "SkipEarly"
                /\ (k - 1) \notin Range(render_calls)
                /\ (k - 1) \notin Range(ai_calls)
           ELSE /\ verdicts[k] # "SkipEarly"
                /\ (k - 1) \in Range(render_calls)
                /\ verdicts[k] # "RenderFail" => (k - 1) \in Range(ai_calls)

\* A page that holds Summary and the footer is handed to the vision model,
\* since it also holds a Payment Group and the Fund House header.
C16_Witness ==
    /\ Len(verdicts) = 1
    /\ uploaded_file.pages[1] = Markers
    /\ verdicts[1] = "Accepted"
    /\ ai_calls = <<0>>

StrictlyIncreasing(q) == \A i, j \in 1..Len(q) : i < j => q[i] < q[j]
PagesOf(files) == [i \in 1..Len(files) |-> files[i].content]

\* C15: pages are processed one at a time in document order.  A step that
\* renders a page or asks the vision model about it does so for the first
\* page without a terminal state, every earlier page having reached one, and
\* brings exactly that page to its terminal state; no page is asked about
\* twice; the files accumulated and returned are in increasing page order.
C15_OneAtATimeInOrder ==
    [][/\ render_calls' # render_calls =>
             /\ render_calls' = Append(render_calls, Len(verdicts))
             /\ Len(verdicts') = Len(verdicts) + 1
       /\ ai_calls' # ai_calls =>
             /\ ai_calls' = Append(ai_calls, Len(verdicts))
             /\ Len(verdicts') = Len(verdicts) + 1
       /\ StrictlyIncreasing(ai_calls')
       /\ StrictlyIncreasing(PagesOf(generated_files'))
       /\ StrictlyIncreasing(PagesOf(result'.files))]_vars

\* A completed run over three pages, the second one pre-filtered, the first
\* and the third accepted.
C15_Witness ==
    /\ Completed
    /\ verdicts = <<"Accepted", "SkipEarly", "Accepted">>
    /\ ai_calls = <<0, 2>>
    /\ PagesOf(result.files) = <<0, 2>>

FilenamesOf(files) == [i \in 1..Len(files) |-> files[i].filename]

\* The button handler of main.py has finished a run that generated files.
MainFinishedWithFiles ==
    pc = "waiting" /\ app = "main" /\ runs > 0 /\ result.files # <<>>

====
